---- MODULE Spec2Model ----
(***************************************************************************)
(* react-typewriter-reveal: the step counting and range walking of         *)
(* src/TypeWriter.js, the frame loop of animate, and the life cycle of the *)
(* TypeWriter instances (mount, observers, attemptAnimation, unmount).     *)
(*                                                                         *)
(* A DOM tree is a sequence of node records in document (pre-)order, each  *)
(* with its depth; node 1 is the Document, node 2 its documentElement.     *)
(* Numbers the code computes in floating point (delay, duration, progress) *)
(* are exact rationals here.                                               *)
(***************************************************************************)
EXTENDS Integers, Sequences, FiniteSets, TLC

\* ------------------------------------------------------------------ bounds
\* content nodes below the documentElement
MaxNodes == 3
\* longest nodeValue of a text node
MaxTextLen == 2
\* largest stepsToMove handed to selectNextRange by the free walk
MaxMove == 2
\* largest frameCount of a run of the frame loop (besides the 18 of 300ms at 60fps)
MaxFrames == 3

\* --------------------------------------------------------- program constants
CHARACTERS_PER_CONTENT_ELEMENT == 10
ELEMENT_NODE == 1
TEXT_NODE == 3
\* nodeType of the Document, the only node whose parentNode is null
DOCUMENT_NODE == 9
\* null (no node); node indices start at 1
null == 0
\* an argument that was not passed
undefined == null

ContentNodeNames ==
  {"IMG", "SVG", "VIDEO", "CANVAS", "IFRAME", "EMBED", "OBJECT", "PICTURE",
   "INPUT", "TEXTAREA", "SELECT", "BUTTON", "METER", "PROGRESS"}

\* ------------------------------------------------------------ rationals
RECURSIVE GCD(_, _)
GCD(a, b) == IF b = 0 THEN a ELSE GCD(b, a % b)

Abs(x) == IF x < 0 THEN -x ELSE x

\* the rational n/d in lowest terms, d > 0
Rat(n, d) ==
  LET s == IF d < 0 THEN -1 ELSE 1
      g == GCD(Abs(n), Abs(d))
  IN  [num |-> (s * n) \div g, den |-> (s * d) \div g]

RInt(n) == [num |-> n, den |-> 1]
RAdd(a, b) == Rat(a.num * b.den + b.num * a.den, a.den * b.den)
RSub(a, b) == Rat(a.num * b.den - b.num * a.den, a.den * b.den)
RMul(a, b) == Rat(a.num * b.num, a.den * b.den)
RDiv(a, b) == Rat(a.num * b.den, a.den * b.num)
RLe(a, b) == a.num * b.den <= b.num * a.den
RLt(a, b) == a.num * b.den < b.num * a.den
\* Math.floor
Floor(a) == a.num \div a.den
\* Math.round replaced by Math.floor
RoundDown(a) == Floor(a)

\* Math.round: the nearest integer, halves towards +Infinity
Round(a) == (2 * a.num + a.den) \div (2 * a.den)

\* ------------------------------------------------------------- DOM tree
RECURSIVE nearestAbove(_, _, _)
nearestAbove(t, n, m) ==
  IF t[m].depth < t[n].depth THEN m ELSE nearestAbove(t, n, m - 1)

parentNode(t, n) == IF n = 1 THEN null ELSE nearestAbove(t, n, n - 1)

RECURSIVE subtreeEnd(_, _, _)
subtreeEnd(t, n, m) ==
  IF m < Len(t) /\ t[m + 1].depth > t[n].depth THEN subtreeEnd(t, n, m + 1) ELSE m

\* the last node of n's subtree in document order
lastDescendant(t, n) == subtreeEnd(t, n, n)

nextSibling(t, n) ==
  LET m == lastDescendant(t, n) + 1
  IN  IF m <= Len(t) /\ t[m].depth = t[n].depth THEN m ELSE null

firstChild(t, n) ==
  IF n < Len(t) /\ t[n + 1].depth = t[n].depth + 1 THEN n + 1 ELSE null

RECURSIVE siblingsFrom(_, _)
siblingsFrom(t, n) ==
  IF n = null THEN <<>> ELSE <<n>> \o siblingsFrom(t, nextSibling(t, n))

childNodes(t, n) == siblingsFrom(t, firstChild(t, n))

\* node.contains(other): other is node or a descendant of node
contains(t, n, other) == n <= other /\ other <= lastDescendant(t, n)

RECURSIVE SumLen(_, _, _)
SumLen(t, from, to) ==
  IF from > to THEN 0
  ELSE (IF t[from].nodeType = TEXT_NODE THEN t[from].length ELSE 0)
       + SumLen(t, from + 1, to)

\* element.textContent.length
textContentLength(t, n) == SumLen(t, n, lastDescendant(t, n))

\* ------------------------------------------------------- content model
isContentElement(e) ==
  IF e.nodeName \in ContentNodeNames THEN TRUE
  ELSE IF e.display = "inline" /\ e.position = "static" THEN FALSE
  ELSE e.background \/ e.border \/ e.outline

getContentLength(t, n) ==
  IF textContentLength(t, n) # 0 THEN textContentLength(t, n)
  ELSE CHARACTERS_PER_CONTENT_ELEMENT

isInvisible(e) == e.width = 0 \/ e.height = 0

\* "Move onto the next node" of countSteps: the node to continue with, or
\* null when the walk is back up at element (or at the top of the tree)
RECURSIVE countStepsNext(_, _, _)
countStepsNext(t, element, node) ==
  LET sibling == nextSibling(t, node)
      parent == parentNode(t, node)
  IN  IF sibling # null THEN sibling
      ELSE IF parent = null \/ parent = element THEN null
      ELSE countStepsNext(t, element, parent)

RECURSIVE countStepsLoop(_, _, _, _, _)
countStepsLoop(t, element, end, node, sum) ==
  IF end # undefined /\ node = end THEN sum
  ELSE
    LET e == t[node]
        isElement == e.nodeType = ELEMENT_NODE
        consumed == /\ isElement
                    /\ ~isInvisible(e)
                    /\ isContentElement(e)
                    /\ (end = undefined \/ ~contains(t, node, end))
        descend == /\ isElement
                   /\ ~isInvisible(e)
                   /\ ~consumed
                   /\ firstChild(t, node) # null
        sum2 == IF e.nodeType = TEXT_NODE THEN sum + e.length
                ELSE IF consumed THEN sum + getContentLength(t, node)
                ELSE sum
        next == countStepsNext(t, element, node)
    IN  IF descend THEN countStepsLoop(t, element, end, firstChild(t, node), sum)
        ELSE IF next = null THEN sum2
        ELSE countStepsLoop(t, element, end, next, sum2)

countSteps(t, element, end) == countStepsLoop(t, element, end, element, 0)

\* ------------------------------------------------- boundary points, Range
\* A boundary point (container, offset) is ordered by the number of tokens
\* (node starts, characters, node ends) that precede it in the document.
nodeTokens(t, n) ==
  2 * (lastDescendant(t, n) - n + 1) + SumLen(t, n, lastDescendant(t, n))

\* tokens before n's start: the starts and characters of the nodes before
\* n and the ends of those that are not ancestors of n (n has depth ancestors)
nodeStart(t, n) == 2 * (n - 1) - t[n].depth + SumLen(t, 1, n - 1)

\* the n-th child (from 1) of container
RECURSIVE nthSibling(_, _, _)
nthSibling(t, node, n) ==
  IF n = 1 THEN node ELSE nthSibling(t, nextSibling(t, node), n - 1)

childAt(t, container, n) == nthSibling(t, firstChild(t, container), n)

PosKey(t, container, offset) ==
  IF t[container].nodeType = TEXT_NODE THEN nodeStart(t, container) + 1 + offset
  ELSE IF offset = 0 THEN nodeStart(t, container) + 1
  ELSE LET child == childAt(t, container, offset)
       IN  nodeStart(t, child) + nodeTokens(t, child)

\* the order key of a range's end
endKey(t, r) == PosKey(t, r.endContainer, r.endOffset)

\* index of n among its parent's childNodes, from 0
childIndex(t, n) ==
  LET kids == childNodes(t, parentNode(t, n))
  IN  (CHOOSE i \in 1..Len(kids) : kids[i] = n) - 1

\* document.createRange(); range.setStart(element, 0); range.setEnd(element, 0)
createRange(element) ==
  [startContainer |-> element, startOffset |-> 0,
   endContainer |-> element, endOffset |-> 0]

\* Range.setStart: a start after the end collapses the range to the start
setStart(t, range, container, offset) ==
  IF PosKey(t, container, offset) > PosKey(t, range.endContainer, range.endOffset)
  THEN [startContainer |-> container, startOffset |-> offset,
        endContainer |-> container, endOffset |-> offset]
  ELSE [range EXCEPT !.startContainer = container, !.startOffset = offset]

\* Range.setEnd: an end before the start collapses the range to the end
setEnd(t, range, container, offset) ==
  IF PosKey(t, container, offset) < PosKey(t, range.startContainer, range.startOffset)
  THEN [startContainer |-> container, startOffset |-> offset,
        endContainer |-> container, endOffset |-> offset]
  ELSE [range EXCEPT !.endContainer = container, !.endOffset = offset]

\* setEndAfter replaced by a boundary point inside the node
setEndInside(t, range, node) == setEnd(t, range, node, 0)

\* Range.setEndAfter(node)
setEndAfter(t, range, node) ==
  setEnd(t, range, parentNode(t, node), childIndex(t, node) + 1)

\* ---------------------------------------------------------- range walker
\* "while (container.nextSibling === null) ... container = container.nextSibling":
\* the next node in document order, or the top of the tree (parentNode null)
RECURSIVE selectNextNode(_, _)
selectNextNode(t, container) ==
  LET sibling == nextSibling(t, container)
      parent == parentNode(t, container)
  IN  IF sibling # null THEN [top |-> FALSE, node |-> sibling]
      ELSE IF parent = null THEN [top |-> TRUE, node |-> container]
      ELSE selectNextNode(t, parent)

\* the value a call returns: a number, or undefined (defined = FALSE)
\* a walker that reports no overshoot
ReturnedNothing(range, value) ==
  [range |-> range, value |-> 0, defined |-> TRUE]

\* a walker that reports the overshoot with the sign of the deficit
ReturnedNegated(range, value) ==
  [range |-> range, value |-> -value, defined |-> TRUE]

Returned(range, value) == [range |-> range, value |-> value, defined |-> TRUE]
ReturnedUndefined(range) == [range |-> range, value |-> 0, defined |-> FALSE]

\* the while (stepsToMove > 0) loop and the statements after it
RECURSIVE selectLoop(_, _, _, _, _)
selectLoop(t, range, container, offset, stepsToMove) ==
  IF ~(stepsToMove > 0)
  THEN Returned(setEnd(t, range, container, offset), -stepsToMove)
  ELSE
    LET e == t[container]
        moveOn(s) ==
          LET nx == selectNextNode(t, container)
          IN  IF nx.top THEN Returned(setEnd(t, range, nx.node, 0), -s)
              ELSE selectLoop(t, range, nx.node, 0, s)
    IN  IF e.nodeType = TEXT_NODE
        THEN LET textRemaining == e.length - offset
             IN  IF textRemaining >= stepsToMove
                 THEN Returned(setEnd(t, range, container, offset + stepsToMove), 0)
                 ELSE moveOn(stepsToMove - textRemaining)
        ELSE IF e.nodeType = ELEMENT_NODE
        THEN IF isInvisible(e) THEN moveOn(stepsToMove)
             ELSE IF isContentElement(e)
             THEN LET left == stepsToMove - getContentLength(t, container)
                  IN  IF left <= 0
                      THEN Returned(setEndAfter(t, range, container), -left)
                      ELSE moveOn(left)
             ELSE IF firstChild(t, container) # null
             THEN selectLoop(t, range, firstChild(t, container), offset, stepsToMove)
             ELSE moveOn(stepsToMove)
        ELSE moveOn(stepsToMove)

\* a walker without the resume of lines 117-135
selectNextRangeFromContainer(t, range0, stepsToMove) ==
  selectLoop(t, setStart(t, range0, range0.endContainer, range0.endOffset),
             range0.endContainer, range0.endOffset, stepsToMove)

selectNextRange(t, range0, stepsToMove) ==
  LET container == range0.endContainer
      offset == range0.endOffset
      range == setStart(t, range0, container, offset)
  IN  IF offset > 0 /\ stepsToMove > 0 /\ t[container].nodeType # TEXT_NODE
      THEN IF offset >= Len(childNodes(t, container))
           THEN LET nx == selectNextNode(t, container)
                IN  IF nx.top
                    THEN ReturnedUndefined(setEnd(t, range, nx.node, 0))
                    ELSE selectLoop(t, range, nx.node, 0, stepsToMove)
           ELSE selectLoop(t, range, childAt(t, container, offset + 1), 0,
                           stepsToMove)
      ELSE selectLoop(t, range, container, offset, stepsToMove)

\* selectNextRange(range, NaN): every comparison with NaN is false
selectNextRangeNaN(t, range0) ==
  setStart(t, range0, range0.endContainer, range0.endOffset)

\* ------------------------------------------------- animate: the frame loop
\* a frame count rounded up
frameCountOfUp(duration, fps) == Floor(RDiv(RMul(duration, RInt(fps)), RInt(1000))) + 1

\* Math.floor((duration * fps) / 1000), duration a rational
frameCountOf(duration, fps) == Floor(RDiv(RMul(duration, RInt(fps)), RInt(1000)))

\* One pass of "for (let i = 0; i < frameCount; i++)": the frame's
\* stepsToMove, the walker's result and currentStep after the frame.
\* isNaN: currentStep is NaN (an undefined overshoot was added to it).
RECURSIVE frameLoop(_, _, _, _, _, _, _)
frameLoop(t, stepsWithinElement, frameCount, i, range, currentStep, isNaN) ==
  IF i >= frameCount THEN <<>>
  ELSE
    LET stepWeShouldBeAt == Rat(stepsWithinElement * i, frameCount)
        stepsToMove == Round(RSub(stepWeShouldBeAt, RInt(currentStep)))
        res == IF isNaN THEN ReturnedUndefined(selectNextRangeNaN(t, range))
               ELSE selectNextRange(t, range, stepsToMove)
        nan == isNaN \/ ~res.defined
        step == IF nan THEN currentStep ELSE currentStep + stepsToMove + res.value
        frame == [i |-> i,
                  stepsToMove |-> IF isNaN THEN 0 ELSE stepsToMove,
                  overshoot |-> res.value,
                  range |-> res.range,
                  currentStep |-> step,
                  isNaN |-> nan]
    IN  <<frame>> \o frameLoop(t, stepsWithinElement, frameCount, i + 1,
                               res.range, step, nan)

\* a frame loop that stops one frame early
animateFramesShort(t, element, frameCount) ==
  frameLoop(t, countSteps(t, element, undefined), frameCount - 1, 0,
            createRange(element), 0, FALSE)

animateFrames(t, element, frameCount) ==
  frameLoop(t, countSteps(t, element, undefined), frameCount, 0,
            createRange(element), 0, FALSE)

\* -------------------------------------- animate: rects, path and keyframes
\* the node lies between the boundary points with keys from and to
selected(t, from, to, n) ==
  from <= nodeStart(t, n) /\ nodeStart(t, n) + nodeTokens(t, n) <= to

\* a text is laid out unless an element around it has no box
textHasBox(t, n) ==
  \A a \in 2..(n - 1) :
    (contains(t, a, n) /\ t[a].nodeType = ELEMENT_NODE) => ~isInvisible(t[a])

\* the characters of text n between the boundary points
charsBetween(t, from, to, n) ==
  LET first == PosKey(t, n, 0)
      upto(key) == IF key < first THEN 0
                   ELSE IF key > first + t[n].length THEN t[n].length
                   ELSE key - first
  IN  upto(to) - upto(from)

\* range.getClientRects(): in document order the border box of every
\* element the range selects whose parent it does not select, and a box
\* for the selected part of every text the range selects or touches (of no
\* width when no character of it is selected)
RECURSIVE rectsFrom(_, _, _, _)
rectsFrom(t, from, to, n) ==
  IF n > Len(t) THEN <<>>
  ELSE
    LET e == t[n]
        first == PosKey(t, n, 0)
        textRect ==
          [node |-> n, width |-> charsBetween(t, from, to, n),
           height |-> IF textHasBox(t, n) THEN 1 ELSE 0,
           right |-> IF to > first + e.length THEN first + e.length ELSE to]
        elementRect ==
          [node |-> n, width |-> e.width, height |-> e.height,
           right |-> nodeStart(t, n) + nodeTokens(t, n)]
        here ==
          IF e.nodeType = TEXT_NODE
          THEN IF from <= first + e.length /\ first <= to THEN <<textRect>> ELSE <<>>
          ELSE IF /\ e.nodeType = ELEMENT_NODE
                  /\ selected(t, from, to, n)
                  /\ ~selected(t, from, to, parentNode(t, n))
          THEN [j \in 1..e.rects |-> elementRect]
          ELSE <<>>
    IN  here \o rectsFrom(t, from, to, n + 1)

getClientRects(t, r) ==
  rectsFrom(t, PosKey(t, r.startContainer, r.startOffset),
            PosKey(t, r.endContainer, r.endOffset), 3)

\* lines 274-285: the rects that have an area
RECURSIVE withArea(_)
withArea(rects) ==
  IF rects = <<>> THEN <<>>
  ELSE IF Head(rects).width = 0 \/ Head(rects).height = 0 THEN withArea(Tail(rects))
  ELSE <<Head(rects)>> \o withArea(Tail(rects))

\* path after frame k (from 1): "path +=" appends to what the frames before
\* it have drawn
RECURSIVE pathAfter(_, _, _)
pathAfter(t, frames, k) ==
  IF k = 0 THEN <<>>
  ELSE pathAfter(t, frames, k - 1) \o withArea(getClientRects(t, frames[k].range))

\* a clip keyframe of the rects of frame k only
clipKeyframeOfFrame(t, frames, k) == withArea(getClientRects(t, frames[k].range))

\* line 286: the clip keyframe frame k pushes; <<>> stands for "polygon(0 0)"
clipKeyframe(t, frames, k) == pathAfter(t, frames, k)

\* the translate keyframe "none"; any other is the edge the caret is put at
none == <<>>

\* lines 288-296 with lastRect and the range end of frame k
caretKeyframeFrom(t, path, r) ==
  IF path = <<>> \/ t[r.endContainer].nodeType # TEXT_NODE
  THEN [opacity |-> 0, translate |-> none]
  ELSE [opacity |-> 1, translate |-> <<path[Len(path)].right>>]

\* a caret keyframe that looks at the rects of its own frame only
caretKeyframeOfFrame(t, frames, k) ==
  caretKeyframeFrom(t, withArea(getClientRects(t, frames[k].range)), frames[k].range)

\* lines 287-297: the caret keyframes frame k pushes; lastRect is the last
\* rect with an area of this frame or of a frame before it
caretKeyframe(t, frames, k) ==
  caretKeyframeFrom(t, pathAfter(t, frames, k), frames[k].range)

\* the carets of a region: no caret prop, a caret without content to
\* measure, a caret with content
Carets == {"none", "empty", "measured"}

\* lines 231-233, 254-264 and 286-297: the keyframe lists after the loop
animateKeyframes(t, frames, caret) ==
  [clipPath |-> [k \in 1..Len(frames) |-> clipKeyframe(t, frames, k)],
   caret |->
     IF caret = "measured"
     THEN [k \in 1..Len(frames) |-> caretKeyframe(t, frames, k)]
     ELSE <<>>,
   caretSubmitted |-> caret = "measured"]

\* ------------------------------------------------- the trees of the walk
Node(depth, nodeType, nodeName, length, display, decorated, size) ==
  [depth |-> depth, nodeType |-> nodeType, nodeName |-> nodeName,
   length |-> length, display |-> display, position |-> "static",
   background |-> decorated, border |-> FALSE, outline |-> FALSE,
   width |-> size, height |-> size, rects |-> 1,
   role |-> "none", owner |-> null]

DocumentNode == Node(0, DOCUMENT_NODE, "#document", 0, "none", FALSE, 0)
HtmlNode == Node(1, ELEMENT_NODE, "HTML", 0, "block", FALSE, 8)
TextNode(n) == Node(0, TEXT_NODE, "#text", n, "none", FALSE, 0)
\* the span a TypeWriter renders (display: inline-block), undecorated:
\* transparent to step counting
RegionSpan == Node(0, ELEMENT_NODE, "SPAN", 0, "inline-block", FALSE, 8)
\* the same span without a box (zero width and height)
InvisibleSpan == Node(0, ELEMENT_NODE, "SPAN", 0, "inline-block", FALSE, 0)
\* the same span when a style sheet paints a background on it
DecoratedSpan == Node(0, ELEMENT_NODE, "SPAN", 0, "inline-block", TRUE, 8)
ImageElement == Node(0, ELEMENT_NODE, "IMG", 0, "inline", FALSE, 8)

\* a text of one character and a longer one
TextLengths == {1, MaxTextLen}

NodeVariants ==
  {TextNode(n) : n \in TextLengths}
  \cup {RegionSpan, InvisibleSpan, DecoratedSpan, ImageElement}

mayHaveChildren(e) == e.nodeType = ELEMENT_NODE /\ e.nodeName # "IMG"

\* the depths of n content nodes in document order: the first is a child of
\* the documentElement, each next at most one level below the one before
TreeShapes(n) ==
  { d \in [1..n -> 2..(n + 1)] :
      d[1] = 2 /\ \A i \in 2..n : d[i] <= d[i - 1] + 1 }

\* only a node that may have children is followed by a deeper node
WellFormed(depths, kinds) ==
  \A i \in 2..Len(depths) :
    depths[i] > depths[i - 1] => mayHaveChildren(kinds[i - 1])

BuildTree(depths, kinds) ==
  <<DocumentNode, HtmlNode>>
  \o [i \in 1..Len(depths) |-> [kinds[i] EXCEPT !.depth = depths[i]]]

\* the nodes that can be the root of a region
Spans(t) == {n \in 3..Len(t) : t[n].nodeName = "SPAN"}

NoCall == [called |-> FALSE]
NoRun == [ran |-> FALSE]

\* 17ms at 60fps is one frame; 300ms at 60fps is the default timing
WalkDurations == {17 * k : k \in 0..MaxFrames} \cup {300}
WalkFps == 60

\* ================================================= the life cycle
\* ------------------------------------------------------------------ bounds
\* longest text a region renders as its own content
MaxLen == 2
\* commits (mount, unmount, new content) and viewport changes of a behaviour
MaxEvents == 3

\* the TypeWriter components of a page: 1 is the outermost, 2 is rendered
\* inside 1, 3 inside 2 or, after 2, inside 1
Instances == {1, 2, 3}

\* host[i]: the TypeWriter that i is rendered in (null: none)
Chain == [i \in Instances |-> i - 1]
Siblings == [i \in Instances |-> IF i = 1 THEN null ELSE 1]

\* the props of a TypeWriter: the defaults of the component
DefaultProps == [duration |-> 300, fps |-> 60, delay |-> 0, caret |-> FALSE]
Defaults == [i \in Instances |-> DefaultProps]

\* the pages: two regions side by side in an outer region that has a delay,
\* the first of them with a caret; three regions one in the other, the
\* second with a delay; the same with a duration of little more than two
\* frames on the outer region
Pages ==
  {[host |-> Siblings, props |-> [Defaults EXCEPT ![1].delay = 100, ![2].caret = TRUE]],
   [host |-> Chain, props |-> [Defaults EXCEPT ![2].delay = 100]],
   [host |-> Chain, props |-> [Defaults EXCEPT ![1].duration = 40]]}

\* the text a region renders as its own content: none, or MaxLen characters
ContentLengths == {0, MaxLen}

\* time that passes between two frames
FrameTimes == {200}

\* the viewport is narrow or wide; a box is as large as its text times this
Viewports == {1, 2}

\* the region a style sheet rule of the page can restyle, and the values of
\* display the rule gives it in place of the span's own inline-block:
\* inline (the span breaks over two lines: two client rects, and no box of
\* its own for a ResizeObserver) and none (no box at all)
Styled == 3
Styles == {"inline-block", "inline", "none"}

\* ------------------------------------------------------ the rendered page
\* the second span a TypeWriter renders when it has a caret
CaretSpan ==
  [Node(0, ELEMENT_NODE, "SPAN", 0, "block", FALSE, 8)
     EXCEPT !.position = "absolute", !.role = "caret"]

\* the regions rendered directly inside region i (null: at the top)
RECURSIVE contentLength(_, _), nestedLength(_, _, _)
contentLength(p, i) ==
  IF i = Styled /\ p.style = "none" THEN 0
  ELSE p.content[i] + nestedLength(p, i, i + 1)
nestedLength(p, i, k) ==
  IF k \notin Instances THEN 0
  ELSE (IF p.host[k] = i /\ k \in p.mounted THEN contentLength(p, k) ELSE 0)
       + nestedLength(p, i, k + 1)

\* what a mounted TypeWriter i adds to the document at the given depth: its
\* span with the text and the nested regions, then its caret span
RECURSIVE Block(_, _, _), BlocksFrom(_, _, _, _)
Block(p, i, depth) ==
  LET box == contentLength(p, i) * p.viewport
      display == IF i = Styled THEN p.style ELSE "inline-block"
      span == [RegionSpan EXCEPT !.depth = depth, !.role = "element",
                                 !.owner = i, !.width = box, !.height = box,
                                 !.display = display,
                                 !.rects = IF display = "inline" THEN 2
                                           ELSE IF box = 0 THEN 0 ELSE 1]
      text == IF p.content[i] > 0
              THEN <<[TextNode(p.content[i]) EXCEPT !.depth = depth + 1]>>
              ELSE <<>>
      caret == IF p.props[i].caret
               THEN <<[CaretSpan EXCEPT !.depth = depth, !.owner = i],
                      [TextNode(1) EXCEPT !.depth = depth + 1]>>
               ELSE <<>>
  IN  <<span>> \o text \o BlocksFrom(p, i, i + 1, depth + 1) \o caret
BlocksFrom(p, i, k, depth) ==
  IF k \notin Instances THEN <<>>
  ELSE (IF p.host[k] = i /\ k \in p.mounted THEN Block(p, k, depth) ELSE <<>>)
       \o BlocksFrom(p, i, k + 1, depth)

PageTree(p) == <<DocumentNode, HtmlNode>> \o BlocksFrom(p, null, 1, 2)

\* ref.current: the node a ref points at, by role and owner (null: none)
RECURSIVE nodeFrom(_, _, _, _)
nodeFrom(t, role, owner, n) ==
  IF n > Len(t) THEN null
  ELSE IF t[n].role = role /\ t[n].owner = owner THEN n
  ELSE nodeFrom(t, role, owner, n + 1)
nodeOf(t, role, owner) == IF owner = null THEN null ELSE nodeFrom(t, role, owner, 1)

\* the content box of region i as a ResizeObserver measures it
boxOf(t, i) ==
  LET n == nodeOf(t, "element", i)
  IN  IF n = null \/ t[n].display = "inline" THEN 0 ELSE t[n].width

\* region i and the regions it is rendered in
RECURSIVE enclosing(_, _)
enclosing(p, i) == IF i = null THEN {} ELSE {i} \cup enclosing(p, p.host[i])

\* region i and the mounted regions rendered in it
nested(p, i) == {k \in p.mounted : i \in enclosing(p, k)}

\* ------------------------------------------------------------ instances
\* Animation.currentTime of a cancelled animation
NoTime == [num |-> 0, den |-> 0]

createTypeWriterInstance ==
  [parent |-> null, children |-> <<>>,
   elementRef |-> null, caretRef |-> null,
   duration |-> 300, fps |-> 60, delay |-> 0,
   totalSteps |-> 0, stepsCompleted |-> RInt(0), runningToSteps |-> 0,
   runningAnimation |-> null, runningCaretAnimation |-> null,
   mutationObserver |-> [observing |-> FALSE, records |-> 0],
   resizeObserver |-> [observing |-> FALSE, lastReported |-> 0],
   ignoreInitialResize |-> FALSE]

\* ResizeObserver.observe: a new observation, whose last reported size is 0x0
observe(observer) == [observing |-> TRUE, lastReported |-> 0]
\* ResizeObserver.unobserve / disconnect
unobserve(observer) == [observing |-> FALSE, lastReported |-> 0]

\* the observation of region i has a size to report
Active(I, t, i) ==
  /\ I[i].resizeObserver.observing
  /\ boxOf(t, i) # I[i].resizeObserver.lastReported

\* a cancelled Animation: it is idle, nothing refers to it and nothing of
\* it is read again; its handle is free for the next animation
Canceled ==
  [target |-> null, kind |-> "none", delay |-> RInt(0), duration |-> RInt(0),
   currentTime |-> NoTime, keyframes |-> 0]

RECURSIVE collect(_)
collect(A) ==
  IF A # <<>> /\ A[Len(A)] = Canceled THEN collect(SubSeq(A, 1, Len(A) - 1)) ELSE A

\* Animation.cancel()
cancel(A, h) == IF h = null THEN A ELSE collect([A EXCEPT ![h] = Canceled])

\* the handle of the next animation: the first that is free
RECURSIVE freeFrom(_, _)
freeFrom(A, h) == IF h > Len(A) \/ A[h] = Canceled THEN h ELSE freeFrom(A, h + 1)

submit(A, animation) ==
  LET h == freeFrom(A, 1)
  IN  IF h > Len(A) THEN Append(A, animation) ELSE [A EXCEPT ![h] = animation]

RMin(a, b) == IF RLe(a, b) THEN a ELSE b

\* the time of the document timeline advances by dt: an animation's
\* currentTime grows up to the end of its active interval
advance(a, dt) ==
  IF a.currentTime = NoTime THEN a
  ELSE [a EXCEPT !.currentTime =
          RMin(RAdd(a.currentTime, RInt(dt)), RAdd(a.delay, a.duration))]

\* since the last frame: calls of observeMutation (structural), the records
\* it was called with (mutations: one, several) and whether a size was
\* waiting to be reported then (resized); calls of observeResize (size), of
\* which ignored, and of attemptAnimation, of which submitted; whether the
\* instance was mounted since (alone, or in one commit with the region it is
\* rendered in) and whether an attempt found its animation running; the state
\* the attempt found the instance in (found) and the runningToSteps and
\* stepsCompleted it had then (ranTo, completedBefore)
NoTick ==
  [mounted |-> "no", mutations |-> 0, resized |-> FALSE,
   structural |-> 0, size |-> 0, ignored |-> 0, attempts |-> 0, submitted |-> 0,
   wasRunning |-> FALSE, found |-> "none", ranTo |-> 0,
   completedBefore |-> RInt(0)]
NoAttempt == [outcome |-> "none"]
NoUnmount == [at |-> "never"]

\* ------------------------------------------------------------- animate
\* what attemptAnimation leaves behind: the instances, the animations and a
\* note of what it did
Attempted(I, A, outcome) ==
  [instances |-> I, animations |-> A, outcome |-> outcome]

NoOp(name, rootInstance) == [outcome |-> name, root |-> rootInstance]

\* element.animate(keyframes, {delay, duration, easing, fill}) and, when
\* startTime > 0, animation.currentTime = startTime. Of the keyframes the
\* frame loop pushes (one per frame, see RunFrames) the animation keeps the
\* number: nothing in the life cycle reads what they clip.
newAnimation(target, kind, delay, duration, startTime, frameCount) ==
  [target |-> target, kind |-> kind, delay |-> delay, duration |-> duration,
   currentTime |-> IF RLt(RInt(0), startTime) THEN startTime ELSE RInt(0),
   keyframes |-> frameCount]

\* lines 301-340: the animations are submitted and recorded on the instance
submitAnimations(I, A, t, instance, caretElement, delay, duration, startTime, frameCount) ==
  LET caretReferenceRect ==
        caretElement # null /\ textContentLength(t, caretElement) > 0
      elementAnimation == freeFrom(A, 1)
      A1 == submit(A, newAnimation(instance, "clip", delay, duration, startTime, frameCount))
      caretAnimation == freeFrom(A1, 1)
  IN  [instances |->
         [I EXCEPT ![instance].runningAnimation = elementAnimation,
                   ![instance].runningCaretAnimation =
                     IF caretReferenceRect THEN caretAnimation ELSE null],
       animations |->
         IF caretReferenceRect
         THEN submit(A1, newAnimation(instance, "caret", delay, duration,
                                      startTime, frameCount))
         ELSE A1]

\* lines 213-341: the slice of the root's timeline, its frames, the guards
\* and the submission
animateSlice(I, A, t, rootInstance, instance, element, caretElement, duration, fps, delay, stepsWithinElement, stepsUntilStart, progress) ==
  LET startTime == RMul(RInt(I[rootInstance].duration), progress)
      sliceDelay ==
        RAdd(RInt(delay), Rat(duration * stepsUntilStart, I[rootInstance].totalSteps))
      sliceDuration ==
        RMul(RInt(duration), Rat(stepsWithinElement, I[rootInstance].totalSteps))
      frameCount == frameCountOf(sliceDuration, fps)
      submitted ==
        submitAnimations([I EXCEPT ![instance].runningToSteps = stepsWithinElement],
                         A, t, instance, caretElement, sliceDelay, sliceDuration,
                         startTime, frameCount)
  IN  IF RLe(RAdd(sliceDelay, sliceDuration), startTime)
      THEN Attempted(I, A, NoOp("late", rootInstance))
      ELSE IF frameCount < 2 THEN Attempted(I, A, NoOp("too small", rootInstance))
      ELSE IF t[element].rects # 1 THEN Attempted(I, A, NoOp("not a block", rootInstance))
      ELSE IF isInvisible(t[element]) THEN Attempted(I, A, NoOp("invisible", rootInstance))
      ELSE Attempted(submitted.instances, submitted.animations,
             [outcome |-> "submitted", root |-> rootInstance,
              before |-> stepsUntilStart, within |-> stepsWithinElement,
              rootSteps |-> I[rootInstance].totalSteps,
              rootDelay |-> I[rootInstance].delay,
              rootDuration |-> I[rootInstance].duration,
              delay |-> sliceDelay, duration |-> sliceDuration,
              startTime |-> startTime, frameCount |-> frameCount])

\* lines 189-212: the steps before the element in the root, the early
\* return, the progress made along the root
animateFrom(I, A, t, rootInstance, instance, element, caretElement, duration, fps, delay, stepsWithinElement, stepsUntilStart) ==
  LET runningRootAnimation == I[rootInstance].runningAnimation
  IN  IF RLe(RInt(stepsUntilStart + stepsWithinElement), I[rootInstance].stepsCompleted)
      THEN Attempted(I, A, NoOp("completed", rootInstance))
      ELSE animateSlice(I, A, t, rootInstance, instance, element, caretElement,
             duration, fps, delay, stepsWithinElement, stepsUntilStart,
             IF runningRootAnimation # null /\ A[runningRootAnimation].currentTime # NoTime
             THEN RDiv(RSub(A[runningRootAnimation].currentTime,
                            A[runningRootAnimation].delay),
                       A[runningRootAnimation].duration)
             ELSE RDiv(I[rootInstance].stepsCompleted, RInt(I[rootInstance].totalSteps)))

\* animate that assigns the count to the root's totalSteps
animateCountedOnRoot(I0, A, t, rootInstance, instance, element, caretElement, duration, fps, delay, stepsWithinElement) ==
  animateFrom([I0 EXCEPT ![rootInstance].totalSteps = stepsWithinElement], A, t,
              rootInstance, instance, element, caretElement, duration, fps, delay,
              stepsWithinElement,
              IF nodeOf(t, "element", I0[rootInstance].elementRef) = element THEN 0
              ELSE countSteps(t, nodeOf(t, "element", I0[rootInstance].elementRef), element))

\* lines 187-188: totalSteps is assigned before anything else is done
animateCounted(I0, A, t, rootInstance, instance, element, caretElement, duration, fps, delay, stepsWithinElement) ==
  animateFrom([I0 EXCEPT ![instance].totalSteps = stepsWithinElement], A, t,
              rootInstance, instance, element, caretElement, duration, fps, delay,
              stepsWithinElement,
              IF nodeOf(t, "element", I0[rootInstance].elementRef) = element THEN 0
              ELSE countSteps(t, nodeOf(t, "element", I0[rootInstance].elementRef), element))

animate(I0, A, t, rootInstance, instance, element, caretElement, duration, fps, delay) ==
  animateCounted(I0, A, t, rootInstance, instance, element, caretElement, duration,
                 fps, delay, countSteps(t, element, undefined))

\* ---------------------------------------------------- attemptAnimation
\* "while (animatingRoot.parent !== null && ...parent.runningAnimation !== null)":
\* the topmost ancestor reached over running parents, or null when one of
\* them has lost its element
RECURSIVE animatingRootFrom(_, _)
animatingRootFrom(I, animatingRoot) ==
  LET parent == I[animatingRoot].parent
  IN  IF parent # null /\ I[parent].runningAnimation # null
      THEN IF I[parent].elementRef = null THEN null
           ELSE animatingRootFrom(I, parent)
      ELSE animatingRoot

\* lines 421-448, after the restart of lines 402-420 left I and A
attemptFrom(I, A, t, instance, element, animatingRoot) ==
  IF element = null THEN Attempted(I, A, NoOp("no element", instance))
  ELSE IF animatingRoot = null THEN Attempted(I, A, NoOp("no parent element", instance))
  ELSE animate(I, A, t, animatingRoot, instance, element,
               nodeOf(t, "caret", I[instance].caretRef),
               I[animatingRoot].duration, I[instance].fps, I[instance].delay)

\* a restart that forgets the running animations without cancelling them
restartWithoutCancel(I, A, instance) ==
  LET runningAnimation == I[instance].runningAnimation
      stopTime == A[runningAnimation].currentTime
      overallProgress ==
        RDiv(RSub(stopTime, A[runningAnimation].delay), A[runningAnimation].duration)
  IN  [instances |->
         [I EXCEPT ![instance].runningAnimation = null,
                   ![instance].stepsCompleted =
                     IF runningAnimation # null /\ stopTime # NoTime
                        /\ RLt(RInt(0), overallProgress)
                     THEN RMul(RInt(I[instance].runningToSteps), overallProgress)
                     ELSE @,
                   ![instance].runningCaretAnimation = null],
       animations |-> A]

\* lines 402-420: the running animations are sampled and cancelled
restart(I, A, instance) ==
  LET runningAnimation == I[instance].runningAnimation
      stopTime == A[runningAnimation].currentTime
      overallProgress ==
        RDiv(RSub(stopTime, A[runningAnimation].delay), A[runningAnimation].duration)
  IN  [instances |->
         [I EXCEPT ![instance].runningAnimation = null,
                   ![instance].stepsCompleted =
                     IF runningAnimation # null /\ stopTime # NoTime
                        /\ RLt(RInt(0), overallProgress)
                     THEN RMul(RInt(I[instance].runningToSteps), overallProgress)
                     ELSE @,
                   ![instance].runningCaretAnimation = null],
       animations |-> cancel(cancel(A, runningAnimation), I[instance].runningCaretAnimation)]

attemptRestarted(R, t, instance) ==
  attemptFrom(R.instances, R.animations, t, instance,
              nodeOf(t, "element", R.instances[instance].elementRef),
              animatingRootFrom(R.instances, instance))

attemptAnimation(I, A, t, instance) ==
  attemptRestarted(restart(I, A, instance), t, instance)

\* ------------------------------------------------------------ observers
\* observeMutation without the re-observation
observeMutationOnly(I, instance) == I

observeMutation(I, instance) ==
  [I EXCEPT ![instance].resizeObserver = observe(unobserve(@))]

\* the microtask checkpoint: every MutationObserver that has records gets
\* its callback, in the order the observers were created
RECURSIVE deliverMutationsFrom(_, _)
deliverMutationsFrom(I, i) ==
  IF i \notin Instances THEN I
  ELSE IF I[i].mutationObserver.records > 0
  THEN deliverMutationsFrom(
         observeMutation([I EXCEPT ![i].mutationObserver.records = 0], i), i + 1)
  ELSE deliverMutationsFrom(I, i + 1)

\* a DOM change in the regions of the set where: the MutationObservers
\* that observe one of them (subtree: true) get a record; of the records
\* that wait for the callback the model keeps none, one, several
queueRecords(I, where) ==
  [i \in Instances |->
     IF i \in where /\ I[i].mutationObserver.observing
     THEN [I[i] EXCEPT !.mutationObserver.records = IF @ < 2 THEN @ + 1 ELSE @]
     ELSE I[i]]

\* --------------------------------------------------- mount and unmount
\* render: useState(createTypeWriterInstance), the refs attached at commit,
\* and the first layout effect (duration, fps, delay)
rendered(p, i) ==
  [createTypeWriterInstance EXCEPT
     !.elementRef = i,
     !.caretRef = IF p.props[i].caret THEN i ELSE null,
     !.duration = p.props[i].duration,
     !.fps = p.props[i].fps,
     !.delay = p.props[i].delay]

\* a mount effect that records the parent and does not push the instance
mountEffectWithoutPush(I, parentInstance, instance, wasSSR) ==
  LET I1 == IF parentInstance # null
            THEN [I EXCEPT ![instance].parent = parentInstance]
            ELSE I
  IN  [I1 EXCEPT ![instance].mutationObserver = [observing |-> TRUE, records |-> 0],
                 ![instance].ignoreInitialResize = wasSSR,
                 ![instance].resizeObserver = observe(@)]

\* the second layout effect
mountEffect(I, parentInstance, instance, wasSSR) ==
  LET I1 == IF parentInstance # null
            THEN [I EXCEPT ![instance].parent = parentInstance,
                           ![parentInstance].children = Append(@, instance)]
            ELSE I
  IN  [I1 EXCEPT ![instance].mutationObserver = [observing |-> TRUE, records |-> 0],
                 ![instance].ignoreInitialResize = wasSSR,
                 ![instance].resizeObserver = observe(@)]

\* layout effects run for the children before their parent: the regions of
\* S rendered in i, then i itself
RECURSIVE mountEffects(_, _, _, _, _), mountEffectsIn(_, _, _, _, _, _)
mountEffects(I, p, S, i, wasSSR) ==
  LET I1 == mountEffectsIn(I, p, S, i, i + 1, wasSSR)
  IN  IF i \in S THEN mountEffect(I1, p.host[i], i, wasSSR) ELSE I1
mountEffectsIn(I, p, S, i, k, wasSSR) ==
  IF k \notin Instances THEN I
  ELSE IF p.host[k] = i
  THEN mountEffectsIn(mountEffects(I, p, S, k, wasSSR), p, S, i, k + 1, wasSSR)
  ELSE mountEffectsIn(I, p, S, i, k + 1, wasSSR)

RECURSIVE removeFirst(_, _)
\* parentChildren.indexOf(instance), splice(idx, 1)
removeFirst(s, x) ==
  IF s = <<>> THEN <<>>
  ELSE IF Head(s) = x THEN Tail(s)
  ELSE <<Head(s)>> \o removeFirst(Tail(s), x)

\* a cleanup that leaves the animations running
cleanupKeepsAnimations(I, A, parentInstance, instance) ==
  LET I1 == [I EXCEPT ![instance].mutationObserver = [observing |-> FALSE, records |-> 0],
                      ![instance].resizeObserver = unobserve(@)]
  IN  [instances |->
         IF parentInstance # null
         THEN [I1 EXCEPT ![instance].parent = null,
                         ![parentInstance].children = removeFirst(@, instance)]
         ELSE I1,
       animations |-> A]

\* the cleanup of the second layout effect
cleanup(I, A, parentInstance, instance) ==
  LET I1 == [I EXCEPT ![instance].mutationObserver = [observing |-> FALSE, records |-> 0],
                      ![instance].resizeObserver = unobserve(@)]
      I2 == IF parentInstance # null
            THEN [I1 EXCEPT ![instance].parent = null,
                            ![parentInstance].children = removeFirst(@, instance)]
            ELSE I1
  IN  [instances |-> [I2 EXCEPT ![instance].runningAnimation = null,
                                ![instance].runningCaretAnimation = null],
       animations |-> cancel(cancel(A, I[instance].runningAnimation),
                             I[instance].runningCaretAnimation)]

\* the cleanups of a deleted subtree, then React detaches the refs
RECURSIVE cleanups(_, _, _, _, _)
cleanups(I, A, p, S, i) ==
  IF i \notin Instances THEN [instances |-> I, animations |-> A]
  ELSE IF i \in S
  THEN LET c == cleanup(I, A, p.host[i], i)
       IN  cleanups([c.instances EXCEPT ![i].elementRef = null, ![i].caretRef = null],
                    c.animations, p, S, i + 1)
  ELSE cleanups(I, A, p, S, i + 1)

observeResize(I, A, t, instance) ==
  IF I[instance].ignoreInitialResize
  THEN Attempted([I EXCEPT ![instance].ignoreInitialResize = FALSE], A,
                 NoOp("ignored", instance))
  ELSE attemptAnimation(I, A, t, instance)

\* ---------------------------------------------------------------- state
VARIABLES
  tree,       \* the document: node records in document order
  element,    \* walk: the region's root node (instance.elementRef.current)
  range,      \* walk: the Range the walker moves
  ret,        \* walk: the last selectNextRange call and what it returned
  counted,    \* walk: the last countSteps call and what it returned
  run,        \* walk: the frames of the last run of animate's frame loop
  page,       \* what React renders: nesting, props, mounted regions, content
  instances,  \* the instance object of every TypeWriter
  animations, \* every Animation element.animate returned, by handle
  phase,      \* where the event loop is: "script" or "render"
  events,     \* commits and mutations made so far
  tick,       \* per instance: the callbacks run since the last frame
  lastRun,    \* per instance: what its last attemptAnimation did
  unmounts    \* per instance: the state its last unmount found it in

walkVars == <<element, range, ret, counted, run>>
lifeVars == <<page, instances, animations, phase, events, tick, lastRun, unmounts>>
vars == <<tree, walkVars, lifeVars>>

\* no TypeWriter is rendered: the walk looks at a tree and a range only
LifeIdle ==
  /\ page = [mounted |-> {}]
  /\ instances = <<>>
  /\ animations = <<>>
  /\ phase = "none"
  /\ events = 0
  /\ tick = <<>>
  /\ lastRun = <<>>
  /\ unmounts = <<>>

WalkInit ==
  /\ LifeIdle
  /\ \E n \in 1..MaxNodes :
       \E depths \in TreeShapes(n) :
         \E kinds \in [1..n -> NodeVariants] :
           /\ WellFormed(depths, kinds)
           /\ tree = BuildTree(depths, kinds)
  /\ element \in Spans(tree)
  /\ range = createRange(element)
  /\ ret = NoCall
  /\ counted = NoCall
  /\ run = NoRun

WalkFresh == ret = NoCall /\ counted = NoCall /\ run = NoRun

\* animate gets as far as its frame loop: the region has steps and a box
Runnable(t, e) == ~isInvisible(t[e]) /\ countSteps(t, e, undefined) > 0

\* one call of selectNextRange on the walk's range
Advance ==
  /\ counted = NoCall /\ run = NoRun
  /\ Runnable(tree, element)
  /\ \E stepsToMove \in (-1)..MaxMove :
       LET res == selectNextRange(tree, range, stepsToMove)
       IN  /\ range' = res.range
           /\ ret' = [called |-> TRUE, stepsToMove |-> stepsToMove,
                      value |-> res.value, defined |-> res.defined,
                      endBefore |-> endKey(tree, range)]
  /\ UNCHANGED <<tree, element, counted, run, lifeVars>>

\* one call of countSteps(node) or countSteps(node, end)
CountSteps ==
  /\ WalkFresh
  /\ \E node \in Spans(tree) :
       \E end \in {undefined} \cup {m \in 3..Len(tree) : m # node /\ contains(tree, node, m)} :
         counted' = [called |-> TRUE, node |-> node, end |-> end,
                     value |-> countSteps(tree, node, end)]
  /\ UNCHANGED <<tree, element, range, ret, run, lifeVars>>

\* the frame loop of animate for a fresh, stand-alone region
RunFrames ==
  /\ WalkFresh
  /\ Runnable(tree, element)
  /\ \E duration \in WalkDurations, caret \in Carets :
       LET frameCount == frameCountOf(RInt(duration), WalkFps)
       IN  /\ frameCount >= 2
           /\ \E frames \in {animateFrames(tree, element, frameCount)} :
                run' = [ran |-> TRUE, duration |-> duration, fps |-> WalkFps,
                        frameCount |-> frameCount,
                        totalSteps |-> countSteps(tree, element, undefined),
                        frames |-> frames,
                        caret |-> caret,
                        keyframes |-> animateKeyframes(tree, frames, caret)]
  /\ UNCHANGED <<tree, element, range, ret, counted, lifeVars>>

\* the walker alone, called with any stepsToMove
WalkNext == Advance

WalkSpec == WalkInit /\ [][WalkNext]_vars

\* countSteps and the frame loop of animate
FrameNext == CountSteps \/ RunFrames

FrameSpec == WalkInit /\ [][FrameNext]_vars

\* ================================== the life cycle: the event loop
Init ==
  /\ \E pg \in Pages :
       page = [host |-> pg.host, props |-> pg.props, mounted |-> {},
               content |-> [i \in Instances |-> 0], viewport |-> 1,
               style |-> "inline-block"]
  /\ tree = PageTree(page)
  /\ instances = [i \in Instances |-> createTypeWriterInstance]
  /\ animations = <<>>
  /\ phase = "script"
  /\ events = 0
  /\ tick = [i \in Instances |-> NoTick]
  /\ lastRun = [i \in Instances |-> NoAttempt]
  /\ unmounts = [i \in Instances |-> NoUnmount]
  /\ element = null
  /\ range = createRange(null)
  /\ ret = NoCall
  /\ counted = NoCall
  /\ run = NoRun

\* the state an unmount finds instance i in
foundAt(i) ==
  LET h == instances[i].runningAnimation
  IN  [at |-> IF h # null
              THEN IF animations[h].currentTime = RAdd(animations[h].delay, animations[h].duration)
                   THEN "finished" ELSE "running"
              ELSE IF lastRun[i] = NoAttempt THEN "before the first run"
              ELSE "idle",
       pending |-> Active(instances, tree, i) \/ instances[i].mutationObserver.records > 0]

\* React commits a render that mounts the TypeWriters of S: the spans are
\* inserted, the refs attached, the layout effects run
MountCommit ==
  /\ phase = "script"
  /\ events < MaxEvents
  /\ \E S \in SUBSET (Instances \ page.mounted) :
       /\ S # {}
       /\ \A i \in S : page.host[i] = null \/ page.host[i] \in S \cup page.mounted
       /\ \E content \in [S -> ContentLengths] :
            \E wasSSR \in BOOLEAN :
              /\ wasSSR => events = 0
              /\ LET p == [page EXCEPT
                             !.mounted = @ \cup S,
                             !.content = [i \in Instances |->
                                            IF i \in S THEN content[i] ELSE @[i]]]
                     outside == UNION {enclosing(page, page.host[i]) : i \in S} \ S
                     I1 == queueRecords(instances, outside)
                     I2 == [i \in Instances |-> IF i \in S THEN rendered(p, i) ELSE I1[i]]
                 IN  /\ page' = p
                     /\ tree' = PageTree(p)
                     /\ instances' = mountEffects(I2, p, S, null, wasSSR)
                     /\ lastRun' = [i \in Instances |->
                                      IF i \in S THEN NoAttempt ELSE lastRun[i]]
                     /\ unmounts' = [i \in Instances |->
                                       IF i \in S THEN NoUnmount ELSE unmounts[i]]
                     /\ tick' = [i \in Instances |->
                                   IF i \in S
                                   THEN [tick[i] EXCEPT
                                           !.mounted = IF wasSSR THEN "hydrated"
                                                       ELSE IF page.host[i] \in S
                                                       THEN "with host" ELSE "alone"]
                                   ELSE tick[i]]
  /\ events' = events + 1
  /\ UNCHANGED <<animations, phase, walkVars>>

\* React commits a render that removes TypeWriter i and all it contains
UnmountCommit ==
  /\ phase = "script"
  /\ events < MaxEvents
  /\ \E i \in page.mounted :
       LET S == nested(page, i)
           p == [page EXCEPT
                   !.mounted = @ \ S,
                   !.content = [k \in Instances |-> IF k \in S THEN 0 ELSE @[k]],
                   !.style = IF Styled \in S THEN "inline-block" ELSE @]
           outside == enclosing(page, page.host[i])
           I1 == queueRecords(instances, outside)
           c == cleanups(I1, animations, page, S, 1)
       IN  /\ page' = p
           /\ tree' = PageTree(p)
           /\ instances' = c.instances
           /\ animations' = c.animations
           /\ unmounts' = [k \in Instances |->
                             IF k \in S THEN foundAt(k) ELSE unmounts[k]]
  /\ events' = events + 1
  /\ UNCHANGED <<phase, tick, lastRun, walkVars>>

\* the text a region renders appears or goes away: a childList mutation
SetContent ==
  /\ phase = "script"
  /\ events < MaxEvents
  /\ \E i \in page.mounted :
       \E n \in ContentLengths :
         /\ n # page.content[i]
         /\ LET p == [page EXCEPT !.content[i] = n]
            IN  /\ page' = p
                /\ tree' = PageTree(p)
                /\ instances' = queueRecords(instances, enclosing(page, i))
  /\ events' = events + 1
  /\ UNCHANGED <<animations, phase, tick, lastRun, unmounts, walkVars>>

\* the viewport changes and with it the size of every box
ResizeViewport ==
  /\ phase = "script"
  /\ events < MaxEvents
  /\ \E v \in Viewports \ {page.viewport} :
       LET p == [page EXCEPT !.viewport = v]
       IN  page' = p /\ tree' = PageTree(p)
  /\ events' = events + 1
  /\ UNCHANGED <<instances, animations, phase, tick, lastRun, unmounts, walkVars>>

\* a rule of a style sheet starts or stops to apply to the styled region:
\* its display changes; no node and no attribute under a region does
Restyle ==
  /\ phase = "script"
  /\ events < MaxEvents
  /\ Styled \in page.mounted
  /\ \E style \in Styles \ {page.style} :
       LET p == [page EXCEPT !.style = style]
       IN  page' = p /\ tree' = PageTree(p)
  /\ events' = events + 1
  /\ UNCHANGED <<instances, animations, phase, tick, lastRun, unmounts, walkVars>>

\* the script has run: the microtask checkpoint delivers the mutation
\* records, then the frame is rendered
DeliverMutations ==
  /\ phase = "script"
  /\ instances' = deliverMutationsFrom(instances, 1)
  /\ tick' = [i \in Instances |->
                IF instances[i].mutationObserver.records > 0
                THEN [tick[i] EXCEPT
                        !.structural = @ + 1,
                        !.mutations = instances[i].mutationObserver.records,
                        !.resized = Active(instances, tree, i)]
                ELSE tick[i]]
  /\ phase' = "render"
  /\ UNCHANGED <<tree, page, animations, events, lastRun, unmounts, walkVars>>

\* the ResizeObserver of one instance reports a size; an observer is
\* created before those of the regions rendered inside it and reports first
DeliverResize ==
  /\ phase = "render"
  /\ \E i \in Instances :
       /\ Active(instances, tree, i)
       /\ \A j \in enclosing(page, i) \ {i} : ~Active(instances, tree, j)
       /\ \E r \in {observeResize(
                       [instances EXCEPT ![i].resizeObserver.lastReported = boxOf(tree, i)],
                       animations, tree, i)} :
            LET ran == r.outcome.outcome # "ignored"
            IN
              /\ instances' = r.instances
              /\ animations' = r.animations
              /\ tick' = [tick EXCEPT
                            ![i].size = @ + 1,
                            ![i].wasRunning = ran /\ foundAt(i).at = "running",
                            ![i].found = IF ran THEN foundAt(i).at ELSE @,
                            ![i].ranTo = IF ran THEN instances[i].runningToSteps ELSE @,
                            ![i].completedBefore =
                              IF ran THEN instances[i].stepsCompleted ELSE @,
                            ![i].ignored = IF ran THEN @ ELSE @ + 1,
                            ![i].attempts = IF ran THEN @ + 1 ELSE @,
                            ![i].submitted =
                              IF r.outcome.outcome = "submitted" THEN @ + 1 ELSE @]
              /\ lastRun' = IF ran THEN [lastRun EXCEPT ![i] = r.outcome] ELSE lastRun
  /\ UNCHANGED <<tree, page, phase, events, unmounts, walkVars>>

\* the frame is done: time passes until the next script runs
EndFrame ==
  /\ phase = "render"
  /\ \A i \in Instances : ~Active(instances, tree, i)
  /\ \E dt \in FrameTimes :
       animations' = [h \in 1..Len(animations) |-> advance(animations[h], dt)]
  /\ tick' = [i \in Instances |-> NoTick]
  /\ phase' = "script"
  /\ UNCHANGED <<tree, page, instances, events, lastRun, unmounts, walkVars>>

Next ==
  \/ MountCommit
  \/ UnmountCommit
  \/ SetContent
  \/ ResizeViewport
  \/ Restyle
  \/ DeliverMutations
  \/ DeliverResize
  \/ EndFrame

Spec == Init /\ [][Next]_vars

\* ------------------------------------------- measures the claims refer to
\* the step weight of a subtree as the content model defines it
RECURSIVE stepWeight(_, _), SumWeights(_, _, _)
stepWeight(t, n) ==
  IF t[n].nodeType = TEXT_NODE THEN t[n].length
  ELSE IF t[n].nodeType # ELEMENT_NODE THEN 0
  ELSE IF isInvisible(t[n]) THEN 0
  ELSE IF isContentElement(t[n]) THEN getContentLength(t, n)
  ELSE SumWeights(t, childNodes(t, n), Len(childNodes(t, n)))
SumWeights(t, kids, upto) ==
  IF upto = 0 THEN 0
  ELSE stepWeight(t, kids[upto]) + SumWeights(t, kids, upto - 1)

properAncestor(t, a, n) == a # n /\ contains(t, a, n)

\* an element the walker treats as one unit or skips: it is not looked into
isOpaque(t, n) ==
  /\ t[n].nodeType = ELEMENT_NODE
  /\ (isInvisible(t[n]) \/ isContentElement(t[n]))

\* the nodes a walk that starts at root can look at: all but root's ancestors
inScope(t, root, n) == n >= 3 /\ ~properAncestor(t, n, root)

\* n carries steps of its own for a walk from root: a text or a visible
\* content element that lies in no opaque element of the scope
isUnit(t, root, n) ==
  /\ inScope(t, root, n)
  /\ nodeStart(t, n) >= nodeStart(t, root)
  /\ \/ t[n].nodeType = TEXT_NODE
     \/ (t[n].nodeType = ELEMENT_NODE /\ ~isInvisible(t[n]) /\ isContentElement(t[n]))
  /\ \A a \in 3..(n - 1) :
       (properAncestor(t, a, n) /\ inScope(t, root, a)) => ~isOpaque(t, a)

Clamp(x, lo, hi) == IF x < lo THEN lo ELSE IF x > hi THEN hi ELSE x

\* the steps of node n that lie before the boundary point key
unitBefore(t, n, key) ==
  IF t[n].nodeType = TEXT_NODE
  THEN Clamp(key - PosKey(t, n, 0), 0, t[n].length)
  ELSE IF key >= nodeStart(t, n) + nodeTokens(t, n) THEN getContentLength(t, n)
  ELSE 0

RECURSIVE SumUnits(_, _, _, _)
SumUnits(t, root, key, n) ==
  IF n > Len(t) THEN 0
  ELSE (IF isUnit(t, root, n) THEN unitBefore(t, n, key) ELSE 0)
       + SumUnits(t, root, key, n + 1)

\* the step weight of the content between the start of root and the
\* boundary point (container, offset)
revealedSteps(t, root, container, offset) ==
  SumUnits(t, root, PosKey(t, container, offset), 3)

RECURSIVE SumMoved(_, _)
SumMoved(frames, upto) ==
  IF upto = 0 THEN 0
  ELSE frames[upto].stepsToMove + frames[upto].overshoot + SumMoved(frames, upto - 1)

lastFrame == run.frames[Len(run.frames)]

\* r = Math.round(num / den), stated without rounding
IsRounded(r, num, den) ==
  2 * den * r <= 2 * num + den /\ 2 * num + den < 2 * den * (r + 1)

\* r >= Math.round(num / den)
AtLeastRounded(r, num, den) == 2 * den * (r + 1) > 2 * num + den

\* the step weight of the content the range of frame k (1-based) reveals
frameReveal(k) ==
  revealedSteps(tree, element, run.frames[k].range.endContainer,
                run.frames[k].range.endOffset)

\* the region holds text and nothing that is atomic or invisible
textOnly ==
  /\ ~isOpaque(tree, element)
  /\ \A n \in (element + 1)..lastDescendant(tree, element) : ~isOpaque(tree, n)
  /\ \E n \in (element + 1)..lastDescendant(tree, element) :
       tree[n].nodeType = TEXT_NODE

C6_TextFrames ==
  (run.ran /\ textOnly) =>
    /\ run.frameCount * 1000 <= run.duration * run.fps
    /\ run.duration * run.fps < (run.frameCount + 1) * 1000
    /\ Len(run.frames) = run.frameCount
    /\ \A k \in 1..Len(run.frames) :
         IsRounded(frameReveal(k), run.totalSteps * (k - 1), run.frameCount)

\* the text "Hi" with duration 300 and fps 60: 18 frames, the last of which
\* reveals both characters, the sixth (i = 5) the first of them
C6_Witness ==
  /\ run.ran /\ textOnly
  /\ run.totalSteps = 2 /\ run.duration = 300 /\ run.fps = 60
  /\ run.frameCount = 18
  /\ frameReveal(18) = 2
  /\ frameReveal(6) = 1
  /\ frameReveal(5) = 0

\* C7 as stated: countSteps(node) without boundary is the recursive step
\* weight of the subtree of node.
C7_CountIsStepWeight ==
  (counted.called /\ counted.end = undefined) =>
    counted.value = stepWeight(tree, counted.node)

\* -------------------------------------------- claims on the walker
\* C8 as stated: a call of selectNextRange, with any stepsToMove, leaves the
\* range end at or after the position it had before the call.
C8_EndNeverMovesBack ==
  ret.called => endKey(tree, range) >= ret.endBefore

\* C10: after any sequence of selectNextRange calls the range end is never
\* strictly inside a visible atomic element or an invisible element of the
\* walk; it is in a text, at the start of the walk, or directly after a
\* visible atomic element.
C10_EndNotInsideAtomic ==
  /\ \A a \in 3..Len(tree) :
       (inScope(tree, element, a) /\ isOpaque(tree, a)) =>
         ~(/\ PosKey(tree, a, 0) < endKey(tree, range)
           /\ endKey(tree, range) < PosKey(tree, a, Len(childNodes(tree, a))))
  /\ \/ tree[range.endContainer].nodeType = TEXT_NODE
     \/ range.endOffset = 0 /\ range.endContainer \in {element, 1}
     \/ /\ range.endOffset > 0
        /\ LET a == childNodes(tree, range.endContainer)[range.endOffset]
           IN  /\ tree[a].nodeType = ELEMENT_NODE
               /\ ~isInvisible(tree[a])
               /\ isContentElement(tree[a])

\* a call asked for fewer steps than the atomic element at the cursor
\* weighs, and the range end now lies directly after that element
C10_Witness ==
  /\ ret.called /\ ret.defined
  /\ ret.stepsToMove > 0 /\ ret.value > 0
  /\ range.endOffset > 0
  /\ LET a == childNodes(tree, range.endContainer)[range.endOffset]
     IN  /\ isOpaque(tree, a) /\ ~isInvisible(tree[a])
         /\ Len(childNodes(tree, a)) > 0

\* the visible atomic element a is the next content after the boundary point
\* key of a walk from root: a walk that goes on from key meets a before any
\* other step
atomicAtCursor(t, root, key, a) ==
  /\ isUnit(t, root, a)
  /\ t[a].nodeType = ELEMENT_NODE
  /\ PosKey(t, root, 0) <= key
  /\ key <= nodeStart(t, a)
  /\ SumUnits(t, root, key, 3) = SumUnits(t, root, nodeStart(t, a), 3)

\* the range end lies directly after node a
endsAfter(t, r, a) ==
  /\ r.endContainer = parentNode(t, a)
  /\ r.endOffset = childIndex(t, a) + 1

\* C14 as stated: a call with a positive stepsToMove smaller than the weight
\* of the visible atomic element at the cursor puts the range end directly
\* after the element and returns a negative overshoot.
C14_NegativeOvershoot ==
  \A a \in 3..Len(tree) :
    (/\ ret.called /\ ret.stepsToMove > 0
     /\ atomicAtCursor(tree, element, ret.endBefore, a)
     /\ ret.stepsToMove < getContentLength(tree, a)) =>
      /\ endsAfter(tree, range, a)
      /\ ret.defined /\ ret.value < 0

\* C14 amended: such a call puts the range end directly after the element
\* and returns the positive number weight - stepsToMove, so that
\* stepsToMove + overshoot is the weight of the element, all of which the
\* running total then holds.
C14_WholeElementConsumed ==
  \A a \in 3..Len(tree) :
    (/\ ret.called /\ ret.stepsToMove > 0
     /\ atomicAtCursor(tree, element, ret.endBefore, a)
     /\ ret.stepsToMove < getContentLength(tree, a)) =>
      /\ endsAfter(tree, range, a)
      /\ ret.defined /\ ret.value > 0
      /\ ret.stepsToMove + ret.value = getContentLength(tree, a)

\* a call that started after a text asked for fewer steps than the atomic
\* element at the cursor weighs
C14_Witness ==
  \E a \in 3..Len(tree) :
    /\ ret.called /\ ret.stepsToMove > 0
    /\ atomicAtCursor(tree, element, ret.endBefore, a)
    /\ ret.stepsToMove < getContentLength(tree, a)
    /\ SumUnits(tree, element, ret.endBefore, 3) > 0
    /\ endsAfter(tree, range, a)

\* the steps a walk from root can still consume after the boundary point key
stepsRemaining(t, root, key) ==
  SumUnits(t, root, PosKey(t, 1, 1), 3) - SumUnits(t, root, key, 3)

\* C15 as stated: a call with more steps than remain before the boundary
\* of the tree leaves the range end at the end of the content, at or after
\* the previous end, and returns a number, the steps it could not consume.
C15_ClampedAtBoundary ==
  (/\ ret.called /\ ret.stepsToMove > 0
   /\ PosKey(tree, element, 0) <= ret.endBefore
   /\ ret.stepsToMove > stepsRemaining(tree, element, ret.endBefore)) =>
    /\ ret.defined
    /\ Abs(ret.value) = ret.stepsToMove - stepsRemaining(tree, element, ret.endBefore)
    /\ endKey(tree, range) >= ret.endBefore
    /\ stepsRemaining(tree, element, endKey(tree, range)) = 0

\* the step weight of the content of n that precedes the node end inside it
RECURSIVE weightBefore(_, _, _), SumBefore(_, _, _, _)
weightBefore(t, n, end) ==
  IF n = end THEN 0 ELSE SumBefore(t, childNodes(t, n), end, 1)
SumBefore(t, kids, end, k) ==
  IF k > Len(kids) THEN 0
  ELSE IF contains(t, kids[k], end) THEN weightBefore(t, kids[k], end)
  ELSE stepWeight(t, kids[k]) + SumBefore(t, kids, end, k + 1)

\* C16 as stated: countSteps(root, boundary), boundary a node inside root,
\* is the step weight of the content of root that precedes the boundary;
\* an atomic element that contains the boundary is descended into.
C16_CountBeforeBoundary ==
  (counted.called /\ counted.end # undefined) =>
    counted.value = weightBefore(tree, counted.node, counted.end)

\* C17 as stated: countSteps(node) is 0 for an invisible node and for a node
\* without children, and the own weight of a visible atomic node, whatever
\* follows node in the tree.
C17_CountsOnlySubtree ==
  (counted.called /\ counted.end = undefined) =>
    LET e == tree[counted.node]
    IN  /\ isInvisible(e) => counted.value = 0
        /\ (~isInvisible(e) /\ isContentElement(e)) =>
             counted.value = getContentLength(tree, counted.node)
        /\ (~isInvisible(e) /\ ~isContentElement(e)
            /\ firstChild(tree, counted.node) = null) => counted.value = 0

\* -------------------------------------------- claims on the life cycle
\* every ResizeObserver has reported what it had to report in this frame
RenderDone ==
  phase = "render" /\ \A i \in Instances : ~Active(instances, tree, i)

\* C1 as stated: a run a nested instance submits under an ancestor as
\* animating root has [delay, delay + duration] within
\* [rootDelay, rootDelay + rootDuration] of that root.
C1_ChildWithinRoot ==
  \A i \in Instances :
    (lastRun[i].outcome = "submitted" /\ lastRun[i].root # i) =>
      /\ RLe(RInt(lastRun[i].rootDelay), lastRun[i].delay)
      /\ RLe(RAdd(lastRun[i].delay, lastRun[i].duration),
             RInt(lastRun[i].rootDelay + lastRun[i].rootDuration))

C3_UnmountLeavesNothing ==
  \A i \in Instances \ page.mounted :
    /\ instances[i].runningAnimation = null
    /\ instances[i].runningCaretAnimation = null
    /\ \A h \in 1..Len(animations) : animations[h].target # i
    /\ instances[i].parent = null
    /\ \A j \in Instances :
         \A k \in 1..Len(instances[j].children) : instances[j].children[k] # i
    /\ ~instances[i].mutationObserver.observing
    /\ instances[i].mutationObserver.records = 0
    /\ ~instances[i].resizeObserver.observing
    /\ ~Active(instances, tree, i)
    /\ tick[i].structural = 0 /\ tick[i].size = 0 /\ tick[i].attempts = 0

\* a nested instance was unmounted while its animation was running and a
\* notification for it was pending, its parent stays mounted, and a frame
\* has been rendered since
C3_Witness ==
  /\ RenderDone
  /\ \E i \in Instances \ page.mounted :
       /\ page.host[i] \in page.mounted
       /\ unmounts[i].at = "running"
       /\ unmounts[i].pending

\* C9 as stated: a submitted run has
\* delay = rootDelay + rootDuration * before / rootSteps and
\* duration = rootDuration * within / rootSteps.
C9_SliceAllocation ==
  \A i \in Instances :
    lastRun[i].outcome = "submitted" =>
      /\ lastRun[i].delay =
           RAdd(RInt(lastRun[i].rootDelay),
                Rat(lastRun[i].rootDuration * lastRun[i].before, lastRun[i].rootSteps))
      /\ lastRun[i].duration =
           Rat(lastRun[i].rootDuration * lastRun[i].within, lastRun[i].rootSteps)

\* C11 as stated: every instance has 0 <= stepsCompleted <= totalSteps.
C11_StepsCompletedInRange ==
  \A i \in Instances :
    /\ RLe(RInt(0), instances[i].stepsCompleted)
    /\ RLe(instances[i].stepsCompleted, RInt(instances[i].totalSteps))

\* C12 as stated: a region mounted in one commit with the region it is
\* rendered in (not hydrating, and with a box to report) gets exactly one
\* initial run, and that run is timed against an enclosing region as
\* animating root whose total step count is known.
C12_NestedUsesEnclosingRoot ==
  \A i \in page.mounted :
    (RenderDone /\ tick[i].mounted = "with host" /\ boxOf(tree, i) # 0) =>
      /\ tick[i].attempts = 1
      /\ lastRun[i].outcome # "none"
      /\ lastRun[i].root # i
      /\ lastRun[i].root \in enclosing(page, i)
      /\ instances[lastRun[i].root].totalSteps > 0

\* C13: every instance has at most one clip animation and at most one caret
\* animation that was submitted and is not cancelled, and they are the ones
\* it records as runningAnimation and runningCaretAnimation; a recorded
\* handle is an animation of that instance.
C13_OneHandle ==
  \A i \in Instances :
    /\ \A h \in 1..Len(animations) :
         animations[h].target = i =>
           \/ animations[h].kind = "clip" /\ instances[i].runningAnimation = h
           \/ animations[h].kind = "caret" /\ instances[i].runningCaretAnimation = h
    /\ instances[i].runningAnimation # null =>
         /\ instances[i].runningAnimation \in 1..Len(animations)
         /\ animations[instances[i].runningAnimation].target = i
         /\ animations[instances[i].runningAnimation].kind = "clip"
    /\ instances[i].runningCaretAnimation # null =>
         /\ instances[i].runningCaretAnimation \in 1..Len(animations)
         /\ animations[instances[i].runningCaretAnimation].target = i
         /\ animations[instances[i].runningCaretAnimation].kind = "caret"

\* an instance whose animation was running was notified again and has
\* submitted the next one, in one tick
C13_Witness ==
  \E i \in page.mounted :
    /\ tick[i].attempts = 1 /\ tick[i].submitted = 1
    /\ lastRun[i].outcome = "submitted"
    /\ RLt(RInt(0), lastRun[i].startTime)
    /\ instances[i].runningAnimation # null
    /\ RLt(RInt(0), instances[i].stepsCompleted)

\* the run attempted for instance i in this frame was made on a region
\* without area
zeroAreaAttempt(i) ==
  /\ phase = "render"
  /\ tick[i].attempts > 0
  /\ isInvisible(tree[nodeOf(tree, "element", i)])

\* C18: a run is submitted only with a frame budget
\* floor(sliceDuration * fps / 1000) of at least 2 and never for a region
\* without area; after a run that was not submitted the instance records no
\* handle and has no animation; and a mounted instance goes on observing, so
\* that the next notification attempts a run again.
C18_NoOpLeavesNothing ==
  \A i \in Instances :
    /\ lastRun[i].outcome = "submitted" =>
         /\ lastRun[i].frameCount >= 2
         /\ RLe(RInt(lastRun[i].frameCount * 1000),
                RMul(lastRun[i].duration, RInt(instances[i].fps)))
         /\ RLt(RMul(lastRun[i].duration, RInt(instances[i].fps)),
                RInt((lastRun[i].frameCount + 1) * 1000))
    /\ (i \in page.mounted /\ zeroAreaAttempt(i)) => lastRun[i].outcome # "submitted"
    /\ lastRun[i].outcome # "submitted" =>
         /\ instances[i].runningAnimation = null
         /\ instances[i].runningCaretAnimation = null
         /\ \A h \in 1..Len(animations) : animations[h].target # i
    /\ i \in page.mounted =>
         /\ instances[i].mutationObserver.observing
         /\ instances[i].resizeObserver.observing
         /\ lastRun[i].outcome # "none" => ~instances[i].ignoreInitialResize

\* a region whose animation was running lost its area; the run attempted
\* for it had no frame budget and was dropped
C18_Witness ==
  \E i \in page.mounted :
    /\ zeroAreaAttempt(i)
    /\ tick[i].wasRunning
    /\ lastRun[i].outcome = "too small"

\* C19 as stated: after a run was rejected because the region has not
\* exactly one box, an animation of the instance that was running when the
\* notification came is still recorded and still running.
C19_RejectedKeepsAnimation ==
  \A i \in page.mounted :
    (/\ phase = "render" /\ tick[i].attempts = 1 /\ tick[i].wasRunning
     /\ lastRun[i].outcome = "not a block") =>
      /\ instances[i].runningAnimation # null
      /\ animations[instances[i].runningAnimation].target = i
      /\ animations[instances[i].runningAnimation].currentTime # NoTime

\* C20: a step in which instance i handles a size callback (a run attempt,
\* whatever its outcome) leaves the record of every other instance as it
\* was, and every animation of another instance too.
C20_RunIsLocal ==
  [][\A i \in Instances :
       tick'[i].size = tick[i].size + 1 =>
         \A j \in Instances \ {i} :
           /\ instances'[j] = instances[j]
           /\ \A h \in 1..Len(animations) :
                animations[h].target = j =>
                  h <= Len(animations') /\ animations'[h] = animations[h]]_vars

\* a nested instance has submitted a run under an enclosing region as
\* animating root, whose animation is recorded and running
C20_Witness ==
  \E i \in page.mounted :
    /\ tick[i].attempts = 1
    /\ lastRun[i].outcome = "submitted"
    /\ lastRun[i].root # i
    /\ instances[lastRun[i].root].runningAnimation # null
    /\ instances[i].parent # null

\* the run attempted for instance i in this frame got as far as animate
animateCalled(i) ==
  /\ phase = "render"
  /\ tick[i].attempts = 1
  /\ lastRun[i].outcome \notin {"none", "no element", "no parent element"}

\* the steps of the animating root of i's last run that lie before i and in i
stepsUpToEnd(i) ==
  LET el == nodeOf(tree, "element", i)
      rootElement == nodeOf(tree, "element", lastRun[i].root)
  IN  (IF rootElement = el THEN 0 ELSE countSteps(tree, rootElement, el))
      + countSteps(tree, el, undefined)

\* C21 as stated: a run attempted for an instance whose animating root has
\* stepsCompleted >= steps before the instance + steps within it submits no
\* animation; that is the case in particular when the instance's animation
\* had run to completion and its content is unchanged; no run replays the
\* reveal from zero.
C21_NoReplay ==
  \A i \in page.mounted :
    animateCalled(i) =>
      /\ RLe(RInt(stepsUpToEnd(i)), instances[lastRun[i].root].stepsCompleted) =>
           lastRun[i].outcome = "completed"
      /\ (/\ tick[i].found = "finished"
          /\ tick[i].ranTo = countSteps(tree, nodeOf(tree, "element", i), undefined)) =>
           /\ RLe(RInt(stepsUpToEnd(i)), instances[lastRun[i].root].stepsCompleted)
           /\ lastRun[i].outcome # "submitted"

\* -------------------------------------------- claims on the keyframes
\* the range of frame k (from 1) ends in a text
endsInText(k) == tree[run.frames[k].range.endContainer].nodeType = TEXT_NODE

\* frame k itself has drawn a rect
drawsRect(k) == withArea(getClientRects(tree, run.frames[k].range)) # <<>>

\* C22 as stated: a submitted caret animation has one opacity and one
\* translation keyframe per clip frame; the opacity of a frame is 1 exactly
\* when the frame's range ends in a text and the frame produced at least
\* one bounding box, and 0 with the translation "none" otherwise.
C22_OpacityOfFrame ==
  (run.ran /\ run.keyframes.caretSubmitted) =>
    /\ Len(run.keyframes.caret) = Len(run.keyframes.clipPath)
    /\ \A k \in 1..Len(run.frames) :
         /\ run.keyframes.caret[k].opacity = 1 <=> (endsInText(k) /\ drawsRect(k))
         /\ run.keyframes.caret[k].opacity \in {0, 1}
         /\ run.keyframes.caret[k].opacity = 0 =>
              run.keyframes.caret[k].translate = none

\* C22 amended: a submitted caret animation has one opacity and one
\* translation keyframe per clip frame; the opacity of a frame is 1 exactly
\* when the frame's range ends in a text and that frame or a frame before it
\* in the run produced a bounding box with an area (the caret stays where
\* the last box ends while the range does not advance), and 0 with the
\* translation "none" otherwise; frame 0 always has opacity 0. Without a
\* caret whose content can be measured no caret keyframe is made.
C22_OpacityOfRun ==
  run.ran =>
    /\ Len(run.keyframes.clipPath) = run.frameCount
    /\ run.keyframes.caretSubmitted <=> run.caret = "measured"
    /\ ~run.keyframes.caretSubmitted => run.keyframes.caret = <<>>
    /\ run.keyframes.caretSubmitted =>
         /\ Len(run.keyframes.caret) = Len(run.keyframes.clipPath)
         /\ run.keyframes.caret[1].opacity = 0
         /\ \A k \in 1..Len(run.frames) :
              /\ run.keyframes.caret[k].opacity = 1 <=>
                   (endsInText(k) /\ \E j \in 1..k : drawsRect(j))
              /\ run.keyframes.caret[k].opacity \in {0, 1}
              /\ run.keyframes.caret[k].opacity = 0 <=>
                   run.keyframes.caret[k].translate = none

\* a run with a caret in which a frame rests in a text without drawing
\* anything, after an earlier frame has drawn, and a frame ends after an
\* atomic element
C22_Witness ==
  /\ run.ran /\ run.keyframes.caretSubmitted
  /\ \E k \in 2..Len(run.frames) :
       /\ endsInText(k) /\ ~drawsRect(k)
       /\ run.keyframes.caret[k].opacity = 1
  /\ \E k \in 2..Len(run.frames) :
       /\ ~endsInText(k) /\ drawsRect(k)
       /\ run.keyframes.caret[k].opacity = 0

\* the path a is what the path b starts with
startsWith(b, a) == Len(a) <= Len(b) /\ SubSeq(b, 1, Len(a)) = a

\* C23: the clip keyframes of a run are cumulative: the path of frame i+1
\* is the path of frame i with the rects of frame i+1 appended, so the
\* region it reveals contains that of frame i; frame 0 is the reveal-nothing
\* sentinel polygon(0 0); after a frame that is not the sentinel no frame of
\* the run is the sentinel.
C23_Cumulative ==
  run.ran =>
    /\ Len(run.keyframes.clipPath) = run.frameCount
    /\ run.keyframes.clipPath[1] = <<>>
    /\ \A k \in 1..(Len(run.frames) - 1) :
         /\ startsWith(run.keyframes.clipPath[k + 1], run.keyframes.clipPath[k])
         /\ run.keyframes.clipPath[k + 1] =
              run.keyframes.clipPath[k]
              \o withArea(getClientRects(tree, run.frames[k + 1].range))
         /\ run.keyframes.clipPath[k] # <<>> => run.keyframes.clipPath[k + 1] # <<>>

\* a run in which two frames draw and a frame between or after them does not
C23_Witness ==
  /\ run.ran
  /\ \E j, k, l \in 2..Len(run.frames) :
       /\ j < k /\ j < l /\ k # l
       /\ drawsRect(j) /\ drawsRect(k) /\ ~drawsRect(l)
       /\ run.keyframes.clipPath[l] # <<>>

\* C24 as stated: after every frame i of a run the running total
\* currentStep is a number, equals the step weight of the content between
\* the region start and the range end, is at least round(stepsPerFrame * i),
\* and is at most the region's totalSteps.
C24_RunningTotal ==
  run.ran =>
    \A k \in 1..Len(run.frames) :
      /\ ~run.frames[k].isNaN
      /\ run.frames[k].currentStep = SumMoved(run.frames, k)
      /\ run.frames[k].currentStep = frameReveal(k)
      /\ AtLeastRounded(run.frames[k].currentStep, run.totalSteps * (k - 1),
                        run.frameCount)
      /\ run.frames[k].currentStep <= run.totalSteps

\* a run in which a frame consumes an atomic element with an overshoot and
\* the next frame moves on from the position after it
C24_Witness ==
  /\ run.ran
  /\ \E k \in 2..(Len(run.frames) - 1) :
       /\ run.frames[k].overshoot > 0
       /\ run.frames[k + 1].stepsToMove > 0
       /\ run.frames[k + 1].currentStep > run.frames[k].currentStep

\* C25 as stated: in every frame of a run the revealed range lies inside
\* the region's root node, whatever follows that node in the tree: it starts
\* at or after the start of the root node's content and ends no later than
\* directly after the root node.
C25_RangeInsideRegion ==
  run.ran =>
    \A k \in 1..Len(run.frames) :
      /\ PosKey(tree, element, 0)
           <= PosKey(tree, run.frames[k].range.startContainer,
                     run.frames[k].range.startOffset)
      /\ endKey(tree, run.frames[k].range)
           <= nodeStart(tree, element) + nodeTokens(tree, element)

\* the run attempted for instance i in this frame restarted an animation
\* that was running, for content with the step count it was submitted for
restartedUnchanged(i) ==
  /\ animateCalled(i)
  /\ tick[i].found = "running"
  /\ tick[i].ranTo = countSteps(tree, nodeOf(tree, "element", i), undefined)

\* the steps an animation of instance i has revealed: runningToSteps times
\* the fraction of its active duration that has passed
stepsRevealed(i) ==
  LET a == animations[instances[i].runningAnimation]
  IN  RMul(RInt(instances[i].runningToSteps),
           RDiv(RSub(a.currentTime, a.delay), a.duration))

\* C26 as stated: for an instance with unchanged content, whatever its
\* delay, the stepsCompleted sampled at a restart is not smaller than the
\* one sampled at the restart before, and the animation submitted by the
\* restart resumes at the sampled progress.
C26_ProgressKept ==
  \A i \in page.mounted :
    restartedUnchanged(i) =>
      /\ RLe(tick[i].completedBefore, instances[i].stepsCompleted)
      /\ lastRun[i].outcome = "submitted" =>
           stepsRevealed(i) = instances[i].stepsCompleted

\* how often c occurs in the list
RECURSIVE occurrences(_, _)
occurrences(list, c) ==
  IF list = <<>> THEN 0
  ELSE (IF Head(list) = c THEN 1 ELSE 0) + occurrences(Tail(list), c)

\* C27: after any sequence of mounts and unmounts of nested regions, an
\* instance c has parent p exactly when c occurs in p's children list, it
\* occurs there once, and an unmounted instance occurs in no children list
\* and has no parent; the parent of a mounted instance is the instance of
\* the region it is rendered in.
C27_ParentChildren ==
  \A c \in Instances :
    /\ \A p \in Instances :
         /\ instances[c].parent = p <=> occurrences(instances[p].children, c) > 0
         /\ occurrences(instances[p].children, c) <= 1
         /\ c \notin page.mounted => occurrences(instances[p].children, c) = 0
    /\ instances[c].parent = IF c \in page.mounted THEN page.host[c] ELSE null

\* a region was unmounted out of a region that stays mounted and keeps
\* another nested region that was pushed before or after it
C27_Witness ==
  \E c, d \in Instances :
    /\ c # d
    /\ c \notin page.mounted /\ unmounts[c].at # "never"
    /\ d \in page.mounted
    /\ page.host[c] = page.host[d] /\ page.host[d] \in page.mounted
    /\ instances[page.host[d]].children = <<d>>

====
